---------------------------- MODULE Spec2Model ----------------------------
(***************************************************************************)
(* Model of src/src/Lab_2_4_LR2.py: the LinearRegressor class (fit by the  *)
(* normal equation or by gradient descent, predict), evaluate_regression   *)
(* and one_hot_encode.                                                     *)
(*                                                                         *)
(* Numbers are exact rationals <<numerator, denominator>> (denominator     *)
(* positive, lowest terms); floating-point rounding is not modelled.       *)
(* A 1D array is a sequence of numbers, a 2D array a record                *)
(* [ndim, nrows, ncols, rows].  An attribute that may hold Python's None   *)
(* is a record [set, val].                                                 *)
(***************************************************************************)
EXTENDS Integers, Sequences, FiniteSets, TLC

VARIABLES
    intercept,      \* self.intercept of every constructed LinearRegressor
    coefficients,   \* self.coefficients of every constructed LinearRegressor
    call,           \* the last call made on a regressor and how it ended
    assigned_by,    \* per regressor: the arguments of the fit call that last
                    \* assigned intercept and coefficients
    fitted,         \* per regressor: has some fit call returned normally
    enc,            \* one_hot_encode: its arguments and what it returned
    ev              \* evaluate_regression: its arguments and what it returned

vars == <<intercept, coefficients, call, assigned_by, fitted, enc, ev>>

-----------------------------------------------------------------------------
(* Exact rational arithmetic.                                              *)

Abs(n) == IF n < 0 THEN -n ELSE n

RECURSIVE GCD(_, _)
GCD(a, b) == IF b = 0 THEN a ELSE GCD(b, a % b)

Rat(n, d) ==
    LET s == IF d < 0 THEN -1 ELSE 1
        g == GCD(Abs(n), Abs(d))
    IN  <<(s * n) \div g, (s * d) \div g>>

Zero == <<0, 1>>
One == <<1, 1>>
RInt(n) == <<n, 1>>
\* (common factors are cancelled before multiplying, to keep the integers small)
RAdd(a, b) ==
    LET g == GCD(a[2], b[2])
    IN  Rat(a[1] * (b[2] \div g) + b[1] * (a[2] \div g), (a[2] \div g) * b[2])
RNeg(a) == <<-a[1], a[2]>>
RSub(a, b) == RAdd(a, RNeg(b))
RMul(a, b) ==
    LET g == GCD(Abs(a[1]), b[2])
        h == GCD(Abs(b[1]), a[2])
    IN  Rat((a[1] \div g) * (b[1] \div h), (a[2] \div h) * (b[2] \div g))
RDiv(a, b) == RMul(a, IF b[1] < 0 THEN <<-b[2], -b[1]>> ELSE <<b[2], b[1]>>)
RAbs(a) == <<Abs(a[1]), a[2]>>

RECURSIVE RSum(_)
RSum(v) == IF v = <<>> THEN Zero ELSE RAdd(v[1], RSum(Tail(v)))

RMean(v) == RDiv(RSum(v), RInt(Len(v)))

-----------------------------------------------------------------------------
(* Arrays.                                                                 *)

\* The sequence a function on 1..n is, with its entries computed once.
ToSeq(f) == f \o <<>>

Array2D(rows, ncols) ==
    [ndim |-> 2, nrows |-> Len(rows), ncols |-> ncols, rows |-> rows]
Array1D(v) == [ndim |-> 1, nrows |-> Len(v), ncols |-> 0, rows |-> v]

\* X.reshape(-1, 1)
Reshape(X) == Array2D(ToSeq([i \in 1..Len(X.rows) |-> <<X.rows[i]>>]), 1)

\* np.insert(X, 0, 1, axis=1) and np.c_[np.ones((n, 1)), X]
WithBias(X) ==
    Array2D(ToSeq([i \in 1..X.nrows |-> <<One>> \o X.rows[i]]), X.ncols + 1)

VecRat(v) == ToSeq([i \in 1..Len(v) |-> RInt(v[i])])
MatRat(X) ==
    IF X.ndim = 1 THEN Array1D(VecRat(X.rows))
    ELSE Array2D(ToSeq([i \in 1..X.nrows |-> VecRat(X.rows[i])]), X.ncols)

Dot(u, v) == RSum(ToSeq([i \in 1..Len(u) |-> RMul(u[i], v[i])]))

\* X.dot(v) for a 2D X and a 1D v; both callers pass a v of X.ncols entries
MatVec(X, v) == ToSeq([i \in 1..X.nrows |-> Dot(X.rows[i], v)])

Transpose(X) ==
    Array2D(ToSeq([j \in 1..X.ncols |->
                     ToSeq([i \in 1..X.nrows |-> X.rows[i][j]])]),
            X.nrows)

MatMul(A, B) ==
    Array2D(ToSeq([i \in 1..A.nrows |->
                ToSeq([j \in 1..B.ncols |->
                    RSum(ToSeq([k \in 1..A.ncols |->
                                  RMul(A.rows[i][k], B.rows[k][j])]))])]),
            B.ncols)

DropAt(s, k) ==
    ToSeq([i \in 1..(Len(s) - 1) |-> IF i < k THEN s[i] ELSE s[i + 1]])

Minor(M, r, c) ==
    Array2D(ToSeq([i \in 1..(M.nrows - 1) |-> DropAt(DropAt(M.rows, r)[i], c)]),
            M.ncols - 1)

Sign(k) == IF k % 2 = 0 THEN One ELSE RInt(-1)

RECURSIVE Det(_)
Det(M) ==
    IF M.nrows = 0 THEN One
    ELSE RSum(ToSeq([j \in 1..M.ncols |->
                 RMul(RMul(Sign(1 + j), M.rows[1][j]), Det(Minor(M, 1, j)))]))

\* np.linalg.inv of a square matrix with a nonzero determinant
Inv(M) ==
    LET d == Det(M)
    IN  Array2D(ToSeq([i \in 1..M.nrows |->
                    ToSeq([j \in 1..M.ncols |->
                        RDiv(RMul(Sign(i + j), Det(Minor(M, j, i))), d)])]),
                M.ncols)

\* a - b for 1D arrays, with numpy's broadcasting of a length-1 operand
CanBroadcast(a, b) == Len(a) = Len(b) \/ Len(a) = 1 \/ Len(b) = 1
Sub1D(a, b) ==
    LET n == IF Len(a) = 1 THEN Len(b) ELSE Len(a)
    IN  ToSeq([i \in 1..n |->
            RSub(IF Len(a) = 1 THEN a[1] ELSE a[i],
                 IF Len(b) = 1 THEN b[1] ELSE b[i])])

-----------------------------------------------------------------------------
(* LinearRegressor.                                                        *)

Unset == [set |-> FALSE, val |-> <<>>]       \* an attribute holding None
Holding(v) == [set |-> TRUE, val |-> v]

NoError == "none"
InvalidMethod == "ValueError: Method not available for training linear regression."
NotFitted == "ValueError: Model is not yet fitted"
ShapeError == "ValueError: shapes not aligned"
SingularMatrix == "LinAlgError: Singular matrix"

Methods == {"least_squares", "gradient_descent"}

\* What a call returned: fit_gradient_descent's two histories, predict's
\* predictions (empty where the call returns None or raises), and the number
\* of parameter updates the call made.
NoReturn ==
    [loss_history |-> <<>>, w_history |-> <<>>, predictions |-> <<>>,
     updates |-> 0]

\* The object after a method that ended by raising `error` or by returning
\* `ret`; `assigned` tells whether the method reached its assignments to
\* self.intercept and self.coefficients.
Outcome(b, w, error, ret, assigned) ==
    [intercept |-> b, coefficients |-> w, raised |-> error, ret |-> ret,
     assigned |-> assigned]

\* __init__
NewRegressor == [intercept |-> Unset, coefficients |-> Unset]

\* Mutant of AssignTheta: the slice keeps the bias weight among the
\* coefficients.
AssignTheta_KeepBias(obj, theta) ==
    Outcome(Holding(theta[1]), Holding(theta), NoError, NoReturn, TRUE)

\* Mutant of AssignTheta: the solution is added to the parameters the
\* regressor already holds.
AssignTheta_Accumulate(obj, theta) ==
    IF obj.intercept.set /\ Len(obj.coefficients.val) = Len(theta) - 1
    THEN Outcome(Holding(RAdd(obj.intercept.val, theta[1])),
                 Holding(ToSeq([j \in 1..(Len(theta) - 1) |->
                                  RAdd(obj.coefficients.val[j], theta[j + 1])])),
                 NoError, NoReturn, TRUE)
    ELSE Outcome(Holding(theta[1]), Holding(Tail(theta)), NoError, NoReturn, TRUE)

\* fit_multiple, lines 105-106: theta is stored as intercept and coefficients
AssignTheta(obj, theta) ==
    Outcome(Holding(theta[1]), Holding(Tail(theta)), NoError, NoReturn, TRUE)

\* fit_multiple, line 102, given X.T.dot(X): np.linalg.inv raises on a
\* singular matrix, the product with y on a y of another length than X's rows
SolveNormalEquation(obj, X, y, XtX) ==
    IF Det(XtX) = Zero
    THEN Outcome(obj.intercept, obj.coefficients, SingularMatrix, NoReturn, FALSE)
    ELSE IF Len(y) # X.nrows
    THEN Outcome(obj.intercept, obj.coefficients, ShapeError, NoReturn, FALSE)
    ELSE AssignTheta(obj, MatVec(MatMul(Inv(XtX), Transpose(X)), y))

\* fit_multiple(X, y): X carries the bias column
fit_multiple(obj, X, y) ==
    SolveNormalEquation(obj, X, y, MatMul(Transpose(X), X))

\* The loop of fit_gradient_descent keeps its state in s: the object's two
\* attributes, both histories, the error raised (if any) and the number of
\* parameter updates made so far.

\* Mutant of GDRecord: w_history holds references to the live parameters, so
\* every entry shows the latest update.
GDRecord_Alias(s, b, w, mse) ==
    [s EXCEPT !.intercept = b,
              !.coefficients = w,
              !.w_history = ToSeq([k \in 1..(Len(@) + 1) |-> <<b>> \o w]),
              !.loss_history = Append(@, mse),
              !.updates = @ + 1]

\* lines 138-143: the update, the snapshot appended to w_history, the loss
\* appended to loss_history
GDRecord(s, b, w, mse) ==
    [s EXCEPT !.intercept = b,
              !.coefficients = w,
              !.w_history = Append(@, <<b>> \o w),
              !.loss_history = Append(@, mse),
              !.updates = @ + 1]

\* lines 138-139 and 142: the new parameters and the loss, from the
\* gradients and the error vector of this pass
GDUpdate(s, learning_rate, gradients, error) ==
    GDRecord(s,
             RSub(s.intercept, RMul(learning_rate, gradients[1])),
             ToSeq([j \in 1..Len(s.coefficients) |->
                       RSub(s.coefficients[j],
                            RMul(learning_rate, gradients[j + 1]))]),
             RMean(ToSeq([i \in 1..Len(error) |-> RMul(error[i], error[i])])))

\* line 137: (2 / m) * X.T.dot(error)
Scaled(c, v) == ToSeq([i \in 1..Len(v) |-> RMul(c, v[i])])
Gradients(X, error, m) ==
    Scaled(RDiv(RInt(2), RInt(m)), MatVec(Transpose(X), error))

\* lines 134-137: the error vector, which numpy refuses to compute for
\* shapes it cannot broadcast, and its product with X.T, refused unless the
\* error vector has one entry per row of X
GDErrors(s, X, y, learning_rate, m, predictions) ==
    IF ~CanBroadcast(predictions, y)
    THEN [s EXCEPT !.raised = ShapeError]
    ELSE IF (IF Len(predictions) = 1 THEN Len(y) ELSE Len(predictions)) # X.nrows
    THEN [s EXCEPT !.raised = ShapeError]
    ELSE GDUpdate(s, learning_rate,
                  Gradients(X, Sub1D(predictions, y), m),
                  Sub1D(predictions, y))

\* One pass of the loop body, lines 133-143
GDStep(s, X, y, learning_rate, m) ==
    GDErrors(s, X, y, learning_rate, m,
             MatVec(X, <<s.intercept>> \o s.coefficients))

\* Mutant of GDLoop: the loop stops once the loss has reached zero.
RECURSIVE GDLoop_StopsWhenConverged(_, _, _, _, _, _)
GDLoop_StopsWhenConverged(s, X, y, learning_rate, m, left) ==
    IF \/ left <= 0
       \/ s.raised # NoError
       \/ /\ s.loss_history # <<>>
          /\ s.loss_history[Len(s.loss_history)] = Zero
    THEN s
    ELSE GDLoop_StopsWhenConverged(GDStep(s, X, y, learning_rate, m), X, y,
                                   learning_rate, m, left - 1)

\* for epoch in range(iterations): the passes left to run
RECURSIVE GDLoop(_, _, _, _, _, _)
GDLoop(s, X, y, learning_rate, m, left) ==
    IF left <= 0 \/ s.raised # NoError THEN s
    ELSE GDLoop(GDStep(s, X, y, learning_rate, m), X, y, learning_rate, m, left - 1)

\* The loop of fit_gradient_descent from the freshly drawn parameters:
\* rnd[1] is np.random.rand() * 0.01, the rest np.random.rand(d) * 0.01.
GDRun(X, y, learning_rate, iterations, rnd) ==
    GDLoop([intercept |-> rnd[1], coefficients |-> Tail(rnd),
            loss_history |-> <<>>, w_history |-> <<>>,
            raised |-> NoError, updates |-> 0],
           X, y, learning_rate, Len(y), iterations)

\* What fit_gradient_descent leaves and returns when its loop ends in s
GDOutcome(s) ==
    Outcome(Holding(s.intercept), Holding(s.coefficients), s.raised,
            IF s.raised = NoError
            THEN [NoReturn EXCEPT !.loss_history = s.loss_history,
                                  !.w_history = s.w_history,
                                  !.updates = s.updates]
            ELSE [NoReturn EXCEPT !.updates = s.updates],
            TRUE)

\* fit_gradient_descent(X, y, learning_rate, iterations)
fit_gradient_descent(obj, X, y, learning_rate, iterations, rnd) ==
    GDOutcome(GDRun(X, y, learning_rate, iterations, rnd))

\* Mutant of fit: the method tag is matched without regard to case.
fit_LenientTag(obj, X, y, method, learning_rate, iterations, rnd) ==
    IF method \notin Methods \cup {"Least_Squares"}
    THEN Outcome(obj.intercept, obj.coefficients, InvalidMethod, NoReturn, FALSE)
    ELSE IF method = "gradient_descent"
    THEN fit_gradient_descent(obj, WithBias(IF X.ndim = 1 THEN Reshape(X) ELSE X),
                              y, learning_rate, iterations, rnd)
    ELSE fit_multiple(obj, WithBias(IF X.ndim = 1 THEN Reshape(X) ELSE X), y)

\* fit(X, y, method, learning_rate, iterations)
fit(obj, X, y, method, learning_rate, iterations, rnd) ==
    IF method \notin Methods
    THEN Outcome(obj.intercept, obj.coefficients, InvalidMethod, NoReturn, FALSE)
    ELSE LET X_with_bias == WithBias(IF X.ndim = 1 THEN Reshape(X) ELSE X)
         IN  IF method = "least_squares"
             THEN fit_multiple(obj, X_with_bias, y)
             ELSE fit_gradient_descent(obj, X_with_bias, y, learning_rate,
                                       iterations, rnd)

\* predict(X)
predict(obj, X) ==
    IF ~obj.coefficients.set \/ ~obj.intercept.set
    THEN Outcome(obj.intercept, obj.coefficients, NotFitted, NoReturn, FALSE)
    ELSE LET X_b == WithBias(IF X.ndim = 1 THEN Reshape(X) ELSE X)
             theta == <<obj.intercept.val>> \o obj.coefficients.val
         IN  IF X_b.ncols # Len(theta)
             THEN Outcome(obj.intercept, obj.coefficients, ShapeError, NoReturn, FALSE)
             ELSE Outcome(obj.intercept, obj.coefficients, NoError,
                          [NoReturn EXCEPT !.predictions = MatVec(X_b, theta)],
                          FALSE)

-----------------------------------------------------------------------------
(* The calls a client makes on LinearRegressor objects.                    *)

\* fit's defaults, used by a call that passes neither
DefaultLearningRate == <<1, 100>>
DefaultIterations == 1000

MethodTags == Methods \cup {"invalid", "Least_Squares"}
RandVals == { Zero, <<1, 128>> }        \* np.random.rand() * 0.01 lies in [0, 0.01)

FeatureCols(X) == IF X.ndim = 1 THEN 1 ELSE X.ncols

\* The values np.random.rand hands to a call: none unless the call reaches
\* fit_gradient_descent.
RandDraws(X, method) ==
    IF method = "gradient_descent"
    THEN [1..(FeatureCols(X) + 1) -> RandVals]
    ELSE {<<>>}

NoCall ==
    [op |-> "__init__", self |-> 0, X |-> Array1D(<<>>), method |-> "",
     iterations |-> 0, raised |-> NoError, ret |-> NoReturn]
\* (replaced: the call assigned over parameters an earlier call had left)
NotAssigned ==
    [made |-> FALSE, X |-> Array1D(<<>>), y |-> <<>>, method |-> "",
     learning_rate |-> Zero, iterations |-> 0, rnd |-> <<>>,
     replaced |-> FALSE]

Self(i) == [intercept |-> intercept[i], coefficients |-> coefficients[i]]

\* A call's effect on the model's variables: r is what the method left and
\* returned, args the arguments of a fit call.
Returned(self, op, args, r) ==
    /\ intercept' = [intercept EXCEPT ![self] = r.intercept]
    /\ coefficients' = [coefficients EXCEPT ![self] = r.coefficients]
    /\ call' = [op |-> op, self |-> self, X |-> args.X, method |-> args.method,
                iterations |-> args.iterations, raised |-> r.raised,
                ret |-> r.ret]
    /\ assigned_by' =
         IF r.assigned
         THEN [assigned_by EXCEPT
                 ![self] = [args EXCEPT !.replaced = intercept[self].set]]
         ELSE assigned_by
    /\ fitted' = [fitted EXCEPT ![self] = @ \/ (op = "fit" /\ r.raised = NoError)]
    /\ UNCHANGED <<enc, ev>>

Fit(self, X, y, method, learning_rate, iterations) ==
    \E rnd \in RandDraws(X, method) :
        Returned(self, "fit",
                 [made |-> TRUE, X |-> X, y |-> y, method |-> method,
                  learning_rate |-> learning_rate, iterations |-> iterations,
                  rnd |-> rnd, replaced |-> FALSE],
                 fit(Self(self), MatRat(X), VecRat(y), method, learning_rate,
                     iterations, rnd))

Predict(self, X) ==
    Returned(self, "predict", [NotAssigned EXCEPT !.X = X],
             predict(Self(self), MatRat(X)))

\* The client's calls, with arguments from the pools Xs (a sequence of
\* arrays: a pool mixes 1D and 2D arrays), ys, rates and counts.
FitLeastSquares(Xs, ys) ==
    \E self \in DOMAIN intercept, k \in DOMAIN Xs, y \in ys :
        Fit(self, Xs[k], y, "least_squares", DefaultLearningRate,
            DefaultIterations)

FitGradientDescent(Xs, ys, rates, counts) ==
    \E self \in DOMAIN intercept, k \in DOMAIN Xs, y \in ys,
       learning_rate \in rates, iterations \in counts :
        Fit(self, Xs[k], y, "gradient_descent", learning_rate, iterations)

FitUnknownMethod(Xs, ys) ==
    \E self \in DOMAIN intercept, k \in DOMAIN Xs, y \in ys,
       method \in MethodTags \ Methods :
        Fit(self, Xs[k], y, method, DefaultLearningRate, DefaultIterations)

PredictCall(Xs) ==
    \E self \in DOMAIN intercept, k \in DOMAIN Xs : Predict(self, Xs[k])

NoEncode == [called |-> FALSE]
NoEval == [called |-> FALSE]

InitRegressors(ids) ==
    /\ intercept = [i \in ids |-> NewRegressor.intercept]
    /\ coefficients = [i \in ids |-> NewRegressor.coefficients]
    /\ call = NoCall
    /\ assigned_by = [i \in ids |-> NotAssigned]
    /\ fitted = [i \in ids |-> FALSE]
    /\ enc = NoEncode
    /\ ev = NoEval

-----------------------------------------------------------------------------
(* Spec: one regressor and any sequence of fit and predict calls on it.    *)

FeatureInputs ==
    << Array1D(<<1, 2>>),
       Array2D(<<<<1>>, <<1>>>>, 1),
       Array2D(<<<<0, 1>>, <<1, 0>>, <<1, 1>>>>, 2) >>
TargetInputs == { <<1, 3>>, <<2, 0, 1>> }
LearningRates == { <<1, 2>> }
IterationCounts == {0, 2}
PredictInputs == << Array2D(<<<<1, 0>>, <<0, 2>>>>, 2), Array1D(<<3>>) >>

Init == InitRegressors({1})

Next ==
    \/ FitLeastSquares(FeatureInputs, TargetInputs)
    \/ FitGradientDescent(FeatureInputs, TargetInputs, LearningRates, IterationCounts)
    \/ FitUnknownMethod(FeatureInputs, TargetInputs)
    \/ PredictCall(PredictInputs)

Spec == Init /\ [][Next]_vars

-----------------------------------------------------------------------------
(* SpecGD: a single gradient-descent fit on a fresh regressor, over a      *)
(* wider pool of data, learning rates and iteration counts.                *)

GDFeatureInputs ==
    << Array1D(<<0, 1, 2>>),
       Array2D(<<<<2>>>>, 1),
       Array2D(<<<<1>>, <<2>>>>, 1),
       Array2D(<<<<1>>, <<1>>>>, 1),
       Array2D(<<<<0, 1>>, <<1, 0>>, <<1, 1>>>>, 2) >>
GDTargetInputs == { <<1>>, <<1, 3>>, <<2, 0, 1>>, <<0, 0, 0>> }
GDLearningRates == { Zero, <<1, 2>>, <<1, 1>> }
MaxIter == 2

FirstCall == call.op = "__init__"

NextGD ==
    FirstCall /\ FitGradientDescent(GDFeatureInputs, GDTargetInputs,
                                    GDLearningRates, 0..MaxIter)

SpecGD == Init /\ [][NextGD]_vars

-----------------------------------------------------------------------------
(* SpecPair: two regressors, each with its own history of calls.           *)

PairFeatureInputs == << Array1D(<<1, 2>>), Array2D(<<<<1>>, <<1>>>>, 1) >>
PairTargetInputs == { <<1, 3>>, <<3, 1>> }
PairPredictInputs == << Array1D(<<3>>) >>

InitPair == InitRegressors({1, 2})

NextPair ==
    \/ FitLeastSquares(PairFeatureInputs, PairTargetInputs)
    \/ FitGradientDescent(PairFeatureInputs, {<<1, 3>>}, LearningRates, {1})
    \/ PredictCall(PairPredictInputs)

SpecPair == InitPair /\ [][NextPair]_vars

-----------------------------------------------------------------------------
(* evaluate_regression.  A metric is a record [kind, val]: a finite        *)
(* rational, the square root of a rational that has no rational root       *)
(* ("root"), or one of IEEE's "nan", "inf" and "-inf".                     *)

Finite(r) == [kind |-> "finite", val |-> r]
NaN == [kind |-> "nan", val |-> Zero]
Inf == [kind |-> "inf", val |-> Zero]
NegInf == [kind |-> "-inf", val |-> Zero]

IsSquare(n) == \E k \in 0..n : k * k = n
IntRoot(n) == CHOOSE k \in 0..n : k * k = n

\* x / y on floats: x is never negative here
FDiv(x, y) ==
    IF y # Zero THEN Finite(RDiv(x, y))
    ELSE IF x = Zero THEN NaN ELSE Inf

\* 1 - q
OneMinus(q) ==
    IF q.kind = "finite" THEN Finite(RSub(One, q.val))
    ELSE IF q.kind = "inf" THEN NegInf ELSE q

\* np.sqrt(q)
FSqrt(q) ==
    IF q.kind # "finite" THEN q
    ELSE IF IsSquare(q.val[1]) /\ IsSquare(q.val[2])
         THEN Finite(<<IntRoot(q.val[1]), IntRoot(q.val[2])>>)
         ELSE [kind |-> "root", val |-> q.val]

\* np.mean(v): nan for an empty array
FMean(v) == FDiv(RSum(v), RInt(Len(v)))

Squares(v) == ToSeq([i \in 1..Len(v) |-> RMul(v[i], v[i])])
Magnitudes(v) == ToSeq([i \in 1..Len(v) |-> RAbs(v[i])])
\* y_true - np.mean(y_true): an empty array has nothing to subtract from
Centred(v) ==
    IF v = <<>> THEN <<>>
    ELSE Sub1D(v, <<RMean(v)>>)

\* Mutant of RSquared: the ratio itself, without "1 -".
RSquared_Ratio(ss_residual, ss_total) == FDiv(ss_residual, ss_total)

RSquared(ss_residual, ss_total) == OneMinus(FDiv(ss_residual, ss_total))

Metrics(y_true, residuals) ==
    [raised |-> NoError,
     R2 |-> RSquared(RSum(Squares(residuals)), RSum(Squares(Centred(y_true)))),
     RMSE |-> FSqrt(FMean(Squares(residuals))),
     MAE |-> FMean(Magnitudes(residuals))]

evaluate_regression(y_true, y_pred) ==
    IF ~CanBroadcast(y_true, y_pred)
    THEN [raised |-> ShapeError, R2 |-> NaN, RMSE |-> NaN, MAE |-> NaN]
    ELSE Metrics(y_true, Sub1D(y_true, y_pred))

Evaluate(y_true, y_pred) ==
    /\ ev' = [called |-> TRUE, y_true |-> y_true, y_pred |-> y_pred,
              ret |-> evaluate_regression(VecRat(y_true), VecRat(y_pred))]
    /\ UNCHANGED <<intercept, coefficients, call, assigned_by, fitted, enc>>

-----------------------------------------------------------------------------
(* SpecEval: one call of evaluate_regression on vectors of up to MaxLen    *)
(* values.                                                                 *)

MaxLen == 2
EvalValues == {0, 1, 3}
EvalVectors == UNION { [1..n -> EvalValues] : n \in 0..MaxLen }

NextEval ==
    /\ ~ev.called
    /\ \E y_true \in EvalVectors, y_pred \in EvalVectors :
           Evaluate(y_true, y_pred)

SpecEval == Init /\ [][NextEval]_vars

-----------------------------------------------------------------------------
(* one_hot_encode.  A table is a 2D array with a dtype: the cells of an    *)
(* "int" table are integers, those of a "str" table strings.  Column       *)
(* indices are Python's: 0-based, negative ones counting from the end.     *)

IndexError == "IndexError"

Table(dtype, rows, ncols) ==
    [dtype |-> dtype, ndim |-> 2, nrows |-> Len(rows), ncols |-> ncols,
     rows |-> rows]
\* np.array([]) of no rows at all: a 1D array of shape (0,)
EmptyArray ==
    [dtype |-> "float", ndim |-> 1, nrows |-> 0, ncols |-> 0, rows |-> <<>>]

\* The strings of the model in np.unique's (code point) order.
Vocabulary == <<"0", "1", "a", "b">>
Rank(dtype, v) ==
    IF dtype = "str" THEN CHOOSE i \in DOMAIN Vocabulary : Vocabulary[i] = v
    ELSE v

Least(S, dtype) ==
    CHOOSE x \in S : \A z \in S : Rank(dtype, x) <= Rank(dtype, z)
RECURSIVE Ascending(_, _)
Ascending(S, dtype) ==
    IF S = {} THEN <<>>
    ELSE <<Least(S, dtype)>> \o Ascending(S \ {Least(S, dtype)}, dtype)

\* np.unique(categorical_column)
unique(column, dtype) == Ascending({column[r] : r \in DOMAIN column}, dtype)

Greatest(indices) ==
    CHOOSE i \in DOMAIN indices : \A j \in DOMAIN indices : indices[i] >= indices[j]
\* sorted(categorical_indices, reverse=True)
RECURSIVE Descending(_)
Descending(indices) ==
    IF indices = <<>> THEN <<>>
    ELSE <<indices[Greatest(indices)]>>
         \o Descending(DropAt(indices, Greatest(indices)))

InRange(index, ncols) == -ncols <= index /\ index < ncols
\* The column (counted from 1) that index names in an array of ncols columns.
Position(index, ncols) == (IF index < 0 THEN index + ncols ELSE index) + 1
\* How many columns the slice [:, :index] keeps of ncols.
SliceStop(index, ncols) ==
    IF index < 0
    THEN (IF index + ncols < 0 THEN 0 ELSE index + ncols)
    ELSE (IF index > ncols THEN ncols ELSE index)

\* X_transformed[:, index]
Column(X, position) == ToSeq([r \in 1..X.nrows |-> X.rows[r][position]])

\* np.array([(categorical_column == category).astype(int) ...]).T
OneHot(column, unique_values) ==
    IF unique_values = <<>> THEN EmptyArray
    ELSE Table("int",
               ToSeq([r \in 1..Len(column) |->
                   ToSeq([c \in 1..Len(unique_values) |->
                       IF column[r] = unique_values[c] THEN 1 ELSE 0])]),
               Len(unique_values))

\* one_hot[:, 1:]
DropFirst(one_hot) ==
    Table("int", ToSeq([r \in 1..one_hot.nrows |-> Tail(one_hot.rows[r])]),
          one_hot.ncols - 1)

\* np.delete(X_transformed, index, axis=1)
Delete(X, position) ==
    Table(X.dtype, ToSeq([r \in 1..X.nrows |-> DropAt(X.rows[r], position)]),
          X.ncols - 1)

\* The cast np.hstack makes of a row of dtype from into dtype to.
CastRow(row, from, to) ==
    IF from = to THEN row
    ELSE ToSeq([i \in 1..Len(row) |-> ToString(row[i])])

\* np.hstack((X[:, :index], one_hot, X[:, index:])), stop the columns that
\* [:, :index] keeps: integers and strings together make strings.
HStack(X, stop, one_hot, dtype) ==
    Table(dtype,
          ToSeq([r \in 1..X.nrows |->
              CastRow(SubSeq(X.rows[r], 1, stop), X.dtype, dtype)
              \o CastRow(one_hot.rows[r], one_hot.dtype, dtype)
              \o CastRow(SubSeq(X.rows[r], stop + 1, X.ncols), X.dtype, dtype)]),
          X.ncols + one_hot.ncols)

EncodeFailed(s, error) == [s EXCEPT !.raised = error]

\* Lines 239-240; every pass is recorded in s.passes.
Splice(s, index, column, one_hot, deleted) ==
    IF one_hot.ndim # deleted.ndim THEN EncodeFailed(s, ShapeError)
    ELSE [X |-> HStack(deleted, SliceStop(index, deleted.ncols), one_hot,
                       IF deleted.dtype = "str" THEN "str" ELSE one_hot.dtype),
          raised |-> NoError,
          passes |-> Append(s.passes, [index |-> index, column |-> column,
                                       one_hot |-> one_hot])]

\* Lines 235-236
Indicators(s, index, drop_first, column, one_hot) ==
    IF ~drop_first
    THEN Splice(s, index, column, one_hot, Delete(s.X, Position(index, s.X.ncols)))
    ELSE IF one_hot.ndim # 2 THEN EncodeFailed(s, IndexError)
    ELSE Splice(s, index, column, DropFirst(one_hot),
                Delete(s.X, Position(index, s.X.ncols)))

\* Lines 229-232
EncodeColumn(s, index, drop_first, column) ==
    Indicators(s, index, drop_first, column,
               OneHot(column, unique(column, s.X.dtype)))

\* One pass of the loop of lines 224-240.
EncodeStep(s, index, drop_first) ==
    IF ~InRange(index, s.X.ncols) THEN EncodeFailed(s, IndexError)
    ELSE EncodeColumn(s, index, drop_first,
                      Column(s.X, Position(index, s.X.ncols)))

RECURSIVE EncodeLoop(_, _, _)
EncodeLoop(s, indices, drop_first) ==
    IF indices = <<>> \/ s.raised # NoError THEN s
    ELSE EncodeLoop(EncodeStep(s, Head(indices), drop_first), Tail(indices),
                    drop_first)

\* X_transformed starts as a copy of X; no statement writes into an array
\* in place, so the caller's X is as it was when the function returns.
EncodeOutcome(X, s) ==
    [X_after |-> X, raised |-> s.raised, passes |-> s.passes,
     ret |-> IF s.raised = NoError THEN s.X ELSE EmptyArray]

one_hot_encode(X, categorical_indices, drop_first) ==
    EncodeOutcome(X, EncodeLoop([X |-> X, raised |-> NoError, passes |-> <<>>],
                                Descending(categorical_indices), drop_first))

Encode(X, categorical_indices, drop_first) ==
    /\ enc' = [called |-> TRUE, X |-> X,
               categorical_indices |-> categorical_indices,
               drop_first |-> drop_first,
               out |-> one_hot_encode(X, categorical_indices, drop_first)]
    /\ UNCHANGED <<intercept, coefficients, call, assigned_by, fitted, ev>>

-----------------------------------------------------------------------------
(* SpecEncode: one call of one_hot_encode on a table of up to MaxRows rows *)
(* and one to three columns, with a list of up to MaxIndices distinct      *)
(* indices in any order (one of them possibly past the last column).       *)

MaxRows == 2
MaxIndices == 2
ColumnCounts == {1, 2, 3}
CellValues == [int |-> {0, 2}, str |-> {"a", "b"}]

Tables(dtype) ==
    { Table(dtype, rows, ncols) :
        <<ncols, rows>> \in
            UNION { {ncols} \X UNION { [1..n -> [1..ncols -> CellValues[dtype]]] :
                                        n \in 0..MaxRows } :
                    ncols \in ColumnCounts } }

IndexLists(ncols) ==
    { l \in UNION { [1..n -> (-ncols)..ncols] : n \in 0..MaxIndices } :
        \A i, j \in DOMAIN l : i # j => l[i] # l[j] }

NextEncode ==
    /\ ~enc.called
    /\ \E dtype \in DOMAIN CellValues :
         \E X \in Tables(dtype) :
           \E categorical_indices \in IndexLists(X.ncols), drop_first \in BOOLEAN :
               Encode(X, categorical_indices, drop_first)

SpecEncode == Init /\ [][NextEncode]_vars

-----------------------------------------------------------------------------
(* Properties of LinearRegressor.                                          *)

RLess(a, b) == RSub(a, b)[1] < 0

LastCallIsFit == call.op = "fit"
LastCallIsPredict == call.op = "predict"
LastCallRaised == call.raised # NoError
GDReturned ==
    LastCallIsFit /\ call.method = "gradient_descent" /\ ~LastCallRaised

\* The bias-augmented design matrix and the target of the fit call that
\* last assigned regressor i's parameters.
DesignOf(i) ==
    WithBias(IF assigned_by[i].X.ndim = 1
             THEN Reshape(MatRat(assigned_by[i].X))
             ELSE MatRat(assigned_by[i].X))
TargetOf(i) == VecRat(assigned_by[i].y)

(* C1: a fit call whose method tag is neither "least_squares" nor          *)
(* "gradient_descent" raises the invalid-argument error, has computed      *)
(* nothing, and leaves intercept and coefficients as they were before the  *)
(* call, whatever the regressor's earlier history.                         *)
C1_UnknownMethodRejected ==
    [][ (call'.op = "fit" /\ call'.method \notin Methods)
        => /\ call'.raised = InvalidMethod
           /\ call'.ret = NoReturn
           /\ intercept' = intercept
           /\ coefficients' = coefficients ]_vars

\* an unknown tag was rejected on a regressor that holds fitted parameters,
\* for data on which either fitting method would itself have raised
C1_Witness ==
    /\ LastCallIsFit
    /\ call.method \notin Methods
    /\ call.raised = InvalidMethod
    /\ call.X.ndim = 2 /\ call.X.ncols = 1
    /\ intercept[1].set /\ coefficients[1].set

(* C2: predict on a regressor on which no fit call has returned normally   *)
(* raises the unfitted-state error and returns no predictions; predict     *)
(* returns predictions only after a fit that succeeded.                    *)
C2_PredictNeedsSuccessfulFit ==
    (LastCallIsPredict /\ ~fitted[call.self])
        => (call.raised = NotFitted /\ call.ret.predictions = <<>>)

(* C3: a fit call that raises leaves intercept and coefficients as they    *)
(* were before the call.                                                   *)
C3_FailedFitChangesNothing ==
    [][ (call'.op = "fit" /\ call'.raised # NoError)
        => (intercept' = intercept /\ coefficients' = coefficients) ]_vars

C4_WitnessZeroLoss ==
    /\ GDReturned
    /\ call.iterations >= 2
    /\ \A i \in 1..Len(call.ret.loss_history) : call.ret.loss_history[i] = Zero

\* theta - learning_rate * (2/m) * X^T (X theta - y), m = len(y)
SteppedFrom(X, y, learning_rate, theta) ==
    LET residual == Sub1D(MatVec(X, theta), y)
    IN  ToSeq([j \in 1..Len(theta) |->
                RSub(theta[j],
                     RMul(learning_rate,
                          RMul(RDiv(RInt(2), RInt(Len(y))),
                               RSum(ToSeq([i \in 1..X.nrows |->
                                      RMul(X.rows[i][j], residual[i])])))))])

\* mean((X theta - y)^2)
LossAt(X, y, theta) ==
    LET residual == Sub1D(MatVec(X, theta), y)
    IN  RDiv(RSum(ToSeq([i \in 1..Len(residual) |->
                           RMul(residual[i], residual[i])])),
             RInt(Len(residual)))

\* the parameters pass i of the last fit started from
BeforePass(i) ==
    IF i = 1 THEN assigned_by[1].rnd ELSE call.ret.w_history[i - 1]

(* C9: in a gradient-descent fit that returns, weight_history[i] is the    *)
(* parameter vector (intercept first) produced by update i, still so when  *)
(* the call returns; loss_history[i] is the mean squared error of the      *)
(* parameters update i started from (the initial draw for the first pass,  *)
(* weight_history[i-1] afterwards); and after at least one iteration the   *)
(* regressor's intercept and coefficients are the last weight_history      *)
(* entry.                                                                  *)
C9_HistoriesRecordEachPass ==
    GDReturned =>
        /\ \A i \in 1..Len(call.ret.w_history) :
              /\ call.ret.w_history[i] =
                    SteppedFrom(DesignOf(1), TargetOf(1),
                                assigned_by[1].learning_rate, BeforePass(i))
              /\ call.ret.loss_history[i] =
                    LossAt(DesignOf(1), TargetOf(1), BeforePass(i))
        /\ call.iterations >= 1 =>
              <<intercept[1].val>> \o coefficients[1].val
                  = call.ret.w_history[Len(call.ret.w_history)]

\* a fit of two or more passes whose second pass moved the parameters
C9_Witness ==
    /\ GDReturned
    /\ Len(call.ret.w_history) >= 2
    /\ call.ret.w_history[1] # call.ret.w_history[2]
    /\ call.ret.loss_history[1] # call.ret.loss_history[2]

\* regressors i and j were last assigned by a least-squares fit on the same
\* X and y
SameLeastSquaresFit(i, j) ==
    /\ assigned_by[i].made /\ assigned_by[j].made
    /\ assigned_by[i].method = "least_squares"
    /\ assigned_by[j].method = "least_squares"
    /\ assigned_by[i].X.ndim = assigned_by[j].X.ndim
    /\ assigned_by[i].X.rows = assigned_by[j].X.rows
    /\ assigned_by[i].y = assigned_by[j].y

(* C8: two regressors whose parameters were last assigned by a             *)
(* least-squares fit on the same X and y hold the same intercept and       *)
(* coefficients, whatever each held before, and a predict call on one      *)
(* returns what the other would return for the same input.                 *)
C8_FitOverwrites ==
    \A i, j \in DOMAIN intercept :
        SameLeastSquaresFit(i, j) =>
            /\ intercept[i] = intercept[j]
            /\ coefficients[i] = coefficients[j]
            /\ (LastCallIsPredict /\ call.self = i) =>
                  /\ call.raised = predict(Self(j), MatRat(call.X)).raised
                  /\ call.ret = predict(Self(j), MatRat(call.X)).ret

\* regressor 1 was fitted over earlier parameters, regressor 2 from fresh,
\* on the same data, and regressor 1 has predicted since
C8_Witness ==
    /\ DOMAIN intercept = {1, 2}
    /\ SameLeastSquaresFit(1, 2)
    /\ assigned_by[1].replaced /\ ~assigned_by[2].replaced
    /\ LastCallIsPredict /\ call.self = 1 /\ ~LastCallRaised

(* C10: intercept is unset exactly when coefficients is unset, and when    *)
(* they are set the coefficient vector has one entry per feature column    *)
(* (bias column not counted) of the fit call that last assigned them.      *)
C10_AttributesSetTogether ==
    \A i \in DOMAIN intercept :
        /\ intercept[i].set = coefficients[i].set
        /\ intercept[i].set = assigned_by[i].made
        /\ intercept[i].set =>
              Len(coefficients[i].val) = FeatureCols(assigned_by[i].X)

\* parameters of a two-feature fit survive a later call that raised
C10_Witness ==
    /\ intercept[1].set
    /\ FeatureCols(assigned_by[1].X) = 2
    /\ Len(coefficients[1].val) = 2
    /\ LastCallIsFit /\ LastCallRaised /\ call.method = "least_squares"

-----------------------------------------------------------------------------
(* Properties of evaluate_regression.                                      *)

SelfEvaluated ==
    /\ ev.called
    /\ ev.y_true # <<>>
    /\ ev.y_pred = ev.y_true

AllIdentical(v) == \A i \in DOMAIN v : v[i] = v[1]

-----------------------------------------------------------------------------
(* Properties of one_hot_encode.  Columns are counted from 1.              *)

\* The columns of the input that the index list names.
EncodedColumns ==
    { Position(enc.categorical_indices[i], enc.X.ncols) :
        i \in DOMAIN enc.categorical_indices }

\* The call names columns of the input, each of them once.
EncodesDistinctColumns ==
    /\ enc.called
    /\ \A i \in DOMAIN enc.categorical_indices :
           InRange(enc.categorical_indices[i], enc.X.ncols)
    /\ Cardinality(EncodedColumns) = Len(enc.categorical_indices)

\* The distinct values of input column j, in sorted order.
Levels(j) == unique(Column(enc.X, j), enc.X.dtype)

\* The columns that input column j is to take up in the output.
Width(j) ==
    IF j \notin EncodedColumns THEN 1
    ELSE IF enc.drop_first THEN Len(Levels(j)) - 1 ELSE Len(Levels(j))

\* The output columns that are to come before those of input column j.
RECURSIVE Offset(_)
Offset(j) == IF j <= 1 THEN 0 ELSE Offset(j - 1) + Width(j - 1)

RECURSIVE Total(_)
Total(v) == IF v = <<>> THEN 0 ELSE Head(v) + Total(Tail(v))

\* The k-th pass of the loop is the one for the k-th greatest index.
PassColumn(k) ==
    Position(Descending(enc.categorical_indices)[k], enc.X.ncols)

(* C5: for every 2D input and every encoded column with k distinct values, *)
(* the call returns, the column is replaced by exactly k indicator columns *)
(* (k - 1 with drop_first), every row's indicators for it sum to 1 (with   *)
(* drop_first to at most 1, and to 0 for the rows holding the first value  *)
(* in sorted order), and the output has as many rows as the input.         *)
C5_IndicatorColumns ==
    EncodesDistinctColumns =>
        /\ enc.out.raised = NoError
        /\ enc.out.ret.nrows = enc.X.nrows
        /\ enc.out.ret.ncols = Offset(enc.X.ncols + 1)
        /\ Len(enc.out.passes) = Len(enc.categorical_indices)
        /\ \A k \in DOMAIN enc.out.passes :
             /\ enc.out.passes[k].column = Column(enc.X, PassColumn(k))
             /\ enc.out.passes[k].one_hot.ncols = Width(PassColumn(k))
             /\ \A r \in 1..enc.X.nrows :
                  IF enc.drop_first
                  THEN /\ Total(enc.out.passes[k].one_hot.rows[r]) \in {0, 1}
                       /\ enc.X.rows[r][PassColumn(k)] = Levels(PassColumn(k))[1]
                            => Total(enc.out.passes[k].one_hot.rows[r]) = 0
                  ELSE Total(enc.out.passes[k].one_hot.rows[r]) = 1

\* The integer an indicator cell of the output stands for.
IndicatorValue(v) ==
    IF enc.out.ret.dtype = "str" THEN (IF v = "1" THEN 1 ELSE 0) ELSE v

\* Output row r holds, where input column j is to be, the indicators of
\* the levels of column j (all but the first with drop_first).
BlockInPlace(r, j, first) ==
    \A c \in 1..Width(j) :
        IndicatorValue(enc.out.ret.rows[r][Offset(j) + c])
            = IF enc.X.rows[r][j] = Levels(j)[first + c] THEN 1 ELSE 0

(* C6: for every input and every list of distinct column indices in any    *)
(* order, the call returns an output in which each encoded column's        *)
(* indicator block stands where the column stood relative to the other     *)
(* columns, every other column keeps its values and its place in the       *)
(* order, and the caller's input array is as it was.                       *)
C6_ColumnsKeepTheirPlace ==
    EncodesDistinctColumns =>
        /\ enc.out.raised = NoError
        /\ enc.out.X_after = enc.X
        /\ enc.out.ret.dtype = enc.X.dtype
        /\ enc.out.ret.nrows = enc.X.nrows
        /\ enc.out.ret.ncols = Offset(enc.X.ncols + 1)
        /\ \A r \in 1..enc.X.nrows, j \in 1..enc.X.ncols :
             IF j \in EncodedColumns
             THEN BlockInPlace(r, j, IF enc.drop_first THEN 1 ELSE 0)
             ELSE enc.out.ret.rows[r][Offset(j) + 1] = enc.X.rows[r][j]

=============================================================================
